---- MODULE Spec2Model ----
(***************************************************************************)
(* Collective bubbles: the step engine (cobubbles/classes.py), the         *)
(* simulation variants (cobubbles/main.py) and the closest-first           *)
(* coalescence (cobubbles/methods_merge.py).                               *)
(*                                                                         *)
(* Bubble objects live in `heap` (object id -> attribute record, the       *)
(* object's __dict__); lists hold object ids, so that two lists holding    *)
(* the same Bubble see each other's attribute writes, as in Python.        *)
(* Python indices are kept 0-based: position p of a list is element p+1    *)
(* of the sequence.                                                        *)
(* float64 lengths (diameter, coordinates, gaps) are held in fixed point,  *)
(* Scale units per unit length; a volume is an integer.                    *)
(***************************************************************************)
EXTENDS Integers, Sequences, FiniteSets, TLC

\* ------------------------------------------------------------------ bounds
\* largest population handed to a direct call of merge_bubbles_closest
MaxN == 4

\* largest population of an engine (the create phase draws no more)
MaxBubbles == 2

\* largest number of steps an engine is run for, all runs together
MaxSteps == 2

\* fixed-point units per unit length
Scale == 10

\* ------------------------------------------------------------- input sets
\* the two locations of the bubbles handed to a direct call (fixed point),
\* 2.0 apart
LocA == <<0, 0>>
LocB == <<2 * Scale, 0>>

\* the bubbles a caller can hand over: a unit bubble and a large bubble at
\* the first location, a bubble that carries no volume at the second.
\* Surface gaps: unit/unit at one place -1.0, unit/large at one place -1.5,
\* large/large -2.0, large/unit across 0.5, unit/unit across 1.0.
BubbleInputs ==
    {[diameter |-> Scale, volume |-> 1, xy |-> LocA],
     [diameter |-> 2 * Scale, volume |-> 8, xy |-> LocA],
     [diameter |-> Scale, xy |-> LocB]}

\* thresholds a caller can pass (fixed point): -1.0 and 1.0
MaxDists == {-Scale, Scale}

\* merge probabilities, in percent
Probas == {0, 50, 100}

VARIABLES
    heap,        \* object id -> __dict__ of the Bubble
    next_id,     \* next object id to allocate
    bubbles,     \* the local list `bubbles`: sequence of ids
    pc,          \* control position
    err,         \* exception propagating, "" when none
    max_dist,    \* merge_bubbles_closest argument
    proba,       \* merge_bubbles_closest argument (percent)
    bubble_kw,   \* merge_bubbles_closest **bubble_kw
    bubbles_old, \* local: copy of the input list
    D,           \* local: gap of pair k, in half fixed-point units
    k_sort,      \* local: pair indices still on the stack
    merged,      \* local: original indices consumed so far
    condition,   \* local: the while condition
    b1, b2, b,   \* locals: the two popped bubbles and the new one (0: unset)
    cls,         \* class of the engine ("none": no engine, a direct call)
    params,      \* self.params
    history,     \* self.bubbles: the snapshots, one per entry
    steps_arg,   \* run(steps): <<>> for None, <<k>> for the integer k
    steps,       \* run: local `steps` once defaulted
    n,           \* run: the loop variable, steps done by this call
    len0,        \* len(self.bubbles) when the current run was entered
    phases,      \* the phases the current step has run, in order
    born,        \* the bubbles the current step's create phase appended
    drawn,       \* the production count the step's create phase drew: <<r>>
    placed,      \* the bubbles the current step's move phase located
    n_steps,     \* number of step_advance calls that returned
    _bubbles_df,      \* self._bubbles_df: <<>> while unset, <<rows>> once set
    _bubbles_by_iter, \* self._bubbles_by_iter: <<>> while unset, <<rows>>
    slice_iter,  \* argument of the last call of the aggregation layer
    ret,         \* what that call returned: <<>> for none, <<value>>
    _bubbles,    \* self._bubbles: the list as the attribute shows it
    same         \* the local list is the very object self._bubbles

mergeVars == <<max_dist, proba, bubble_kw, bubbles_old, D, k_sort, merged,
               condition, b1, b2, b>>
runVars == <<steps_arg, steps, n, len0>>
stepVars == <<phases, born, drawn, placed, n_steps>>
engineVars == <<cls, params, history, runVars, stepVars>>
analysisVars == <<_bubbles_df, _bubbles_by_iter, slice_iter, ret>>
aliasVars == <<_bubbles, same>>
vars == <<heap, next_id, bubbles, pc, err, mergeVars, engineVars, analysisVars, aliasVars>>

\* ---------------------------------------------------------------- helpers
Range(s) == {s[p] : p \in DOMAIN s}

\* (mutant) the element is read, not removed
Pop_keep(s, p) == s

\* list.pop(p), p a 0-based position: the list without that element
Pop(s, p) == [q \in 1..(Len(s) - 1) |-> IF q <= p THEN s[q] ELSE s[q + 1]]

\* obj.k = v
SetAttr(obj, k, v) == [a \in DOMAIN obj \cup {k} |-> IF a = k THEN v ELSE obj[a]]

EmptyDict == [a \in {} |-> 0]

\* float sqrt and cube root, rounded to the fixed-point grid
Sqrt(x) == CHOOSE r \in 0..(4 * Scale) : (r = 0 \/ (2*r - 1) * (2*r - 1) <= 4 * x) /\ 4 * x < (2*r + 1) * (2*r + 1)
Cbrt(x) == CHOOSE r \in 0..(4 * Scale) : (2*r - 1) * (2*r - 1) * (2*r - 1) <= 8 * x /\ 8 * x < (2*r + 1) * (2*r + 1) * (2*r + 1)

\* scipy.spatial.distance.pdist, euclidean, for one pair
Dist(p, q) == Sqrt((p[1] - q[1]) * (p[1] - q[1]) + (p[2] - q[2]) * (p[2] - q[2]))

\* np.triu_indices(n, k=1): <<I[k], J[k]>> of pair k (0-based, row-major)
TriuCount(sz) == (sz * (sz - 1)) \div 2
TriuPos(sz, i, j) == i * sz - (i * (i + 1)) \div 2 + (j - i - 1)
TriuIndices(sz, k) ==
    CHOOSE p \in (0..(sz - 1)) \X (0..(sz - 1)) :
        p[1] < p[2] /\ TriuPos(sz, p[1], p[2]) = k

\* (mutant) a fair coin whatever the probability
Binomial_coin(p) == {0, 1}

\* np.random.binomial(1, proba): the outcomes that can be drawn
Binomial(p) == IF p = 0 THEN {0} ELSE IF p = 100 THEN {1} ELSE {0, 1}

\* ----------------------------------------------------- merge_bubbles_pair
\* (mutant) the larger of the two volumes
VolumeRule_max(V1, V2) == IF V1 >= V2 THEN V1 ELSE V2

\* (mutant) the volume of the first bubble alone
VolumeRule_first(V1, V2) == V1

\* lines 41-42: volume adds up
VolumeRule(V1, V2) == V1 + V2

\* lines 44-45: (d1**3 + d2**3)**(1/3)
DiameterRule(d1, d2) == Cbrt(d1 * d1 * d1 + d2 * d2 * d2)

\* The result of the call: [ok |-> TRUE, bubble |-> __dict__ of the new
\* Bubble] or [ok |-> FALSE, exc |-> the exception raised].
merge_bubbles_pair(o1, o2, kw0) ==
    LET attrs == DOMAIN o1 \cap DOMAIN o1
        rules == attrs \cap {"volume", "diameter", "xy"}
        kw1 == IF "volume" \in attrs
               THEN SetAttr(kw0, "volume", VolumeRule(o1["volume"], o2["volume"]))
               ELSE kw0
        D1 == o1["diameter"] * o1["diameter"] * o1["diameter"]
        D2 == o2["diameter"] * o2["diameter"] * o2["diameter"]
        kw2 == IF "diameter" \in attrs
               THEN SetAttr(kw1, "diameter", DiameterRule(o1["diameter"], o2["diameter"]))
               ELSE kw1
        V1 == IF "diameter" \in attrs THEN D1 ELSE o1["volume"]
        V2 == IF "diameter" \in attrs THEN D2 ELSE o2["volume"]
        kw3 == IF "xy" \in attrs
               THEN SetAttr(kw2, "xy",
                        <<(V1 * o1["xy"][1] + V2 * o2["xy"][1]) \div (V1 + V2),
                          (V1 * o1["xy"][2] + V2 * o2["xy"][2]) \div (V1 + V2)>>)
               ELSE kw2
    IN  IF \E a \in rules : a \notin DOMAIN o2
        THEN [ok |-> FALSE, exc |-> "AttributeError"]
        ELSE IF "xy" \in attrs /\ "volume" \notin attrs /\ "diameter" \notin attrs
        THEN [ok |-> FALSE, exc |-> "UnboundLocalError"]
        ELSE [ok |-> TRUE, bubble |-> kw3]

\* -------------------------------------------------- merge_bubbles_closest
\* (mutant) the sum of the diameters is subtracted, not the sum of the radii
Gaps_diameters(h, bs) ==
    [k \in 0..(TriuCount(Len(bs)) - 1) |->
        LET o1 == h[bs[TriuIndices(Len(bs), k)[1] + 1]]
            o2 == h[bs[TriuIndices(Len(bs), k)[2] + 1]]
        IN  2 * Dist(o1["xy"], o2["xy"]) - 2 * (o1["diameter"] + o2["diameter"])]

\* D = pdist(xy) - (d[I]+d[J])/2, doubled so that the halving is exact
Gaps(h, bs) ==
    [k \in 0..(TriuCount(Len(bs)) - 1) |->
        LET o1 == h[bs[TriuIndices(Len(bs), k)[1] + 1]]
            o2 == h[bs[TriuIndices(Len(bs), k)[2] + 1]]
        IN  2 * Dist(o1["xy"], o2["xy"]) - (o1["diameter"] + o2["diameter"])]

\* (mutant) the stack is not sorted: any pair can stand at its bottom
Bottom_any(ks, gaps) == ks

\* the pair indices that can stand at the bottom of the stack k_sort: the
\* least gap; argsort leaves the order among equal gaps open
Bottom(ks, gaps) == {k \in ks : \A k2 \in ks : gaps[k] <= gaps[k2]}

\* (mutant) the other end of the stack is tested: the largest gap
Condition_top(ks, gaps, md) ==
    ks # {} /\ \E k \in ks : (\A k2 \in ks : gaps[k] >= gaps[k2]) /\ gaps[k] < 2 * md

\* (mutant) a gap equal to the threshold passes
Condition_le(ks, gaps, md) == ks # {} /\ \E k \in Bottom(ks, gaps) : gaps[k] <= 2 * md

\* (len(k_sort) > 0) and (D[k_sort[-1]] < max_dist)
Condition(ks, gaps, md) == ks # {} /\ \E k \in Bottom(ks, gaps) : gaps[k] < 2 * md

\* (mutant) the indices are used as they are, the earlier pops forgotten
Shift_none(m, i) == 0

\* len(np.where(np.array(merged) < i)[0])
Shift(m, i) == Cardinality({p \in DOMAIN m : m[p] < i})

\* (mutant) the second index is not looked up
Consumed_first(m, i, j) == i \in Range(m)

\* line 110: (i in merged) or (j in merged)
Consumed(m, i, j) == i \in Range(m) \/ j \in Range(m)

Max2(x, y) == IF x >= y THEN x ELSE y
Min2(x, y) == IF x <= y THEN x ELSE y

\* lines 92-103: copy the list, compute the gaps, build the stack
merge_bubbles_closest_init ==
    /\ pc = "merge_call"
    /\ bubbles_old' = bubbles
    /\ D' = Gaps(heap, bubbles)
    /\ k_sort' = DOMAIN D'
    /\ merged' = <<>>
    /\ condition' = Condition(k_sort', D', max_dist)
    /\ pc' = "merge_loop"
    /\ UNCHANGED <<heap, next_id, bubbles, err, max_dist, proba, bubble_kw, b1, b2, b>>
    /\ UNCHANGED engineVars
    /\ UNCHANGED analysisVars
    /\ UNCHANGED aliasVars

\* lines 104-121: one pass of the while loop
merge_bubbles_closest_loop ==
    /\ pc = "merge_loop"
    /\ condition
    /\ \E k \in Bottom(k_sort, D) :
        LET i == TriuIndices(Len(bubbles_old), k)[1]
            j == TriuIndices(Len(bubbles_old), k)[2]
            ks == k_sort \ {k}
            i_sh == Shift(merged, i)
            j_sh == Shift(merged, j)
            hi == Max2(i - i_sh, j - j_sh)
            lo == Min2(i - i_sh, j - j_sh)
        IN  /\ k_sort' = ks
            /\ condition' = Condition(ks, D, max_dist)
            /\ IF Consumed(merged, i, j)
               THEN \* continue
                    UNCHANGED <<heap, next_id, bubbles, pc, err, merged, b1, b2, b>>
               ELSE \E draw \in Binomial(proba) :
                    IF draw = 0
                    THEN \* continue
                         UNCHANGED <<heap, next_id, bubbles, pc, err, merged, b1, b2, b>>
                    ELSE IF hi >= Len(bubbles) \/ lo >= Len(bubbles) - 1
                    THEN \* list.pop raises
                         /\ pc' = "raised"
                         /\ err' = "IndexError"
                         /\ bubbles' = IF hi < Len(bubbles) THEN Pop(bubbles, hi) ELSE bubbles
                         /\ UNCHANGED <<heap, next_id, merged, b1, b2, b>>
                    ELSE LET o1 == bubbles[hi + 1]
                             rest == Pop(bubbles, hi)
                             o2 == rest[lo + 1]
                             res == merge_bubbles_pair(heap[o1], heap[o2], bubble_kw)
                         IN  /\ b1' = o1
                             /\ b2' = o2
                             /\ IF res.ok
                                THEN /\ heap' = [o \in DOMAIN heap \cup {next_id} |->
                                                    IF o = next_id THEN res.bubble ELSE heap[o]]
                                     /\ next_id' = next_id + 1
                                     /\ b' = next_id
                                     /\ bubbles' = Append(Pop(rest, lo), next_id)
                                     /\ merged' = merged \o <<i, j>>
                                     /\ UNCHANGED <<pc, err>>
                                ELSE /\ pc' = "raised"
                                     /\ err' = res.exc
                                     /\ bubbles' = Pop(rest, lo)
                                     /\ UNCHANGED <<heap, next_id, merged, b>>
    /\ UNCHANGED <<max_dist, proba, bubble_kw, bubbles_old, D>>
    /\ UNCHANGED engineVars
    /\ UNCHANGED analysisVars
    /\ same' = same
    /\ _bubbles' = IF same THEN bubbles' ELSE _bubbles

\* lines 140-141: the loop is over, the list is returned
merge_bubbles_closest_return ==
    /\ pc = "merge_loop"
    /\ ~condition
    /\ pc' = "returned"
    /\ UNCHANGED <<heap, next_id, bubbles, err, mergeVars, engineVars>>
    /\ UNCHANGED analysisVars
    /\ UNCHANGED aliasVars

\* ------------------------------------------- direct calls of the function
\* every list of 1..MaxN bubbles with diameter and location, every threshold
\* and probability; no keyword for the new bubbles
InitMerge ==
    \E sz \in 1..MaxN :
        /\ heap \in [1..sz -> BubbleInputs]
        /\ next_id = sz + 1
        /\ bubbles = [p \in 1..sz |-> p]
        /\ pc = "merge_call"
        /\ err = ""
        /\ max_dist \in MaxDists
        /\ proba \in Probas
        /\ bubble_kw = EmptyDict
        /\ bubbles_old = <<>>
        /\ D = <<>>
        /\ k_sort = {}
        /\ merged = <<>>
        /\ condition = FALSE
        /\ b1 = 0 /\ b2 = 0 /\ b = 0
        /\ cls = "none"
        /\ params = EmptyDict
        /\ history = <<>>
        /\ steps_arg = <<>> /\ steps = 0 /\ n = 0 /\ len0 = 0
        /\ phases = <<>> /\ born = {} /\ drawn = <<>> /\ placed = {} /\ n_steps = 0
        /\ _bubbles_df = <<>> /\ _bubbles_by_iter = <<>> /\ slice_iter = <<>> /\ ret = <<>>
        /\ _bubbles = <<>> /\ same = FALSE

NextMerge ==
    \/ merge_bubbles_closest_init
    \/ merge_bubbles_closest_loop
    \/ merge_bubbles_closest_return

SpecMerge == InitMerge /\ [][NextMerge]_vars

\* ------------------------------------------------------------- the engine
\* BaseSimu, the variants of main.py that define the four phases (SimuB2 is
\* SimuB with another hazard law), and SimuDiametersHist
Classes == {"BaseSimu", "SimuA", "SimuB", "SimuC", "SimuD", "SimuDiametersHist"}
Variants == {"SimuA", "SimuB", "SimuC", "SimuD"}

\* main._bubble_init, which BaseSimu.__init__ imports as BUBBLE_INIT
_bubble_init == [diameter |-> Scale, volume |-> 1, age |-> 0]

\* self._bubble_init of an engine of class c
self_bubble_init(c) == IF c = "SimuDiametersHist" THEN [lifetime |-> 0] ELSE _bubble_init

\* the values int(round(stats.norm.rvs(avg, std))) can return
Draws == -2..2

\* the values of params['merging_probability'] (percent) and params['steps']
\* an engine is constructed with
MergingProbabilities == {50, 100}
StepsDefaults == {1, 2}

\* the values of params['n_bubbles'] an engine is constructed with
InitCounts == 0..2

\* the values params['dist_lifetime'].rvs can return
Lifetimes == {1, 2}

\* the locations np.random.rand(2)*width can return
Locs == {LocA, LocB}

\* the bin edges an engine of SimuDiametersHist is given: [0, 1.0, 2.0]
bins == <<0, Scale, 2 * Scale>>

Abs(x) == IF x < 0 THEN -x ELSE x

\* pop the positions of S from the list, the highest first
RECURSIVE PopAll(_, _)
PopAll(s, S) ==
    IF S = {} THEN s
    ELSE LET m == CHOOSE x \in S : \A y \in S : y <= x
         IN  PopAll(Pop(s, m), S \ {m})

\* the objects of a list that carry no attribute a
Lacking(h, bs, a) == {p \in DOMAIN bs : a \notin DOMAIN h[bs[p]]}

\* SimuVolumesInt._format_bubbles: volume -> number of bubbles
FormatVolumes(h, bs) ==
    LET V == [p \in DOMAIN bs |-> h[bs[p]]["volume"]]
    IN  [v \in Range(V) |-> Cardinality({p \in DOMAIN V : V[p] = v})]

\* np.histogram(d, bins): the last bin is closed on the right
Histogram(d, bn) ==
    [k \in 0..(Len(bn) - 2) |->
        Cardinality({p \in DOMAIN d :
            /\ bn[k + 1] <= d[p]
            /\ \/ d[p] < bn[k + 2]
               \/ k = Len(bn) - 2 /\ d[p] = bn[k + 2]})]

\* SimuDiametersHist._format_bubbles: bin -> number of bubbles, bins that
\* hold a bubble only
FormatDiameters(h, bs) ==
    LET d == [p \in DOMAIN bs |-> h[bs[p]]["diameter"]]
        hst == Histogram(d, bins)
    IN  [k \in {x \in DOMAIN hst : hst[x] > 0} |-> hst[k]]

\* self._format_bubbles(bubbles); BaseSimu copies the list
_format_bubbles(c, h, bs) ==
    IF c = "BaseSimu" THEN bs
    ELSE IF c = "SimuDiametersHist" THEN FormatDiameters(h, bs)
    ELSE FormatVolumes(h, bs)

\* the attribute _format_bubbles reads on every bubble
FormatReads(c) ==
    IF c = "BaseSimu" THEN {}
    ELSE IF c = "SimuDiametersHist" THEN {"diameter"} ELSE {"volume"}

\* Once a step is over the objects no list refers to are gone.  An object
\* id is a name only: the engines that store counts, not bubbles, have
\* their bubbles renamed 1..len(bubbles) in list order.
Renamed(c, h, bs) ==
    IF c = "BaseSimu"
    THEN [heap |-> h, bubbles |-> bs]
    ELSE [heap |-> [o \in 1..Len(bs) |-> h[bs[o]]], bubbles |-> [p \in 1..Len(bs) |-> p]]

\* BaseSimu.__init__ (SimuD.__init__, SimuDiametersHist.__init__): the
\* engine once constructed.  The import of line 117 names PARAMS_DEFAULT
\* and BUBBLE_INIT, which main.py spells _params_default and _bubble_init:
\* they are read as those two.  The parameters a run reads are those of
\* self.params, the keyword arguments over the defaults.
Construct(c, n0, mp, st) ==
        /\ cls = c
        /\ params = [n_bubbles |-> n0, steps |-> st, meniscus |-> Scale,
                     merging_probability |-> mp, lifetime |-> 1]
        /\ IF c = "SimuDiametersHist"
           THEN /\ heap = EmptyDict
                /\ next_id = 1
                /\ bubbles = <<>>
                /\ history = <<>>
           ELSE /\ \E tau \in (IF c = "SimuD" THEN [1..n0 -> Lifetimes] ELSE {<<>>}) :
                     heap = [o \in 1..n0 |->
                                IF c = "SimuD"
                                THEN SetAttr(_bubble_init, "lifetime", tau[o])
                                ELSE _bubble_init]
                /\ next_id = n0 + 1
                /\ bubbles = [p \in 1..n0 |-> p]
                /\ history = <<_format_bubbles(c, heap, bubbles)>>
        /\ pc = "idle"
        /\ err = ""
        /\ max_dist = 0 /\ proba = 0 /\ bubble_kw = EmptyDict
        /\ bubbles_old = <<>> /\ D = <<>> /\ k_sort = {} /\ merged = <<>>
        /\ condition = FALSE
        /\ b1 = 0 /\ b2 = 0 /\ b = 0
        /\ steps_arg = <<>> /\ steps = 0 /\ n = 0 /\ len0 = 0
        /\ phases = <<>> /\ born = {} /\ drawn = <<>> /\ placed = {} /\ n_steps = 0
        /\ _bubbles_df = <<>> /\ _bubbles_by_iter = <<>> /\ slice_iter = <<>> /\ ret = <<>>
        /\ _bubbles = bubbles /\ same = FALSE

\* every engine of every class, with up to two bubbles to start with
Init ==
    \E c \in Classes, n0 \in InitCounts, mp \in MergingProbabilities, st \in StepsDefaults :
        Construct(c, n0, mp, st)

\* (mutant) bubbles burst before the new ones are created
step_advance_burst_first(ph) ==
    IF ph = "enter" THEN "pop"
    ELSE IF ph = "pop" THEN "create"
    ELSE IF ph = "create" THEN "move"
    ELSE IF ph = "move" THEN "merge"
    ELSE "age"

\* BaseSimu.step_advance, lines 162-168: where control goes once phase ph
\* has returned
step_advance(ph) ==
    IF ph = "enter" THEN "create"
    ELSE IF ph = "create" THEN "pop"
    ELSE IF ph = "pop" THEN "move"
    ELSE IF ph = "move" THEN "merge"
    ELSE "age"

\* (mutant) the argument is ignored
RunSteps_default(a, prm) == prm.steps

\* BaseSimu.run, lines 179-180: the number of steps of run(a)
RunSteps(a, prm) == IF a = <<>> THEN prm.steps ELSE a[1]

\* (mutant) the create phase returns a list of its own making
NewList_create(ph) == ph = "create"

\* whether phase ph hands back another list than the one it was given: no
\* phase does, each changes its argument in place (bubbles += ..., pop,
\* append) and returns it
NewList(ph) == FALSE

\* BaseSimu.run, lines 178-180
run ==
    /\ pc = "idle"
    /\ \E a \in {<<>>} \cup {<<k>> : k \in 0..MaxSteps} :
        LET st == RunSteps(a, params)
        IN  /\ n_steps + st <= MaxSteps
            /\ steps_arg' = a
            /\ steps' = st
    /\ n' = 0
    /\ len0' = Len(history)
    /\ pc' = "run_for"
    /\ bubbles' = _bubbles
    /\ same' = TRUE
    /\ UNCHANGED <<heap, next_id, err, mergeVars, cls, params, history, stepVars, _bubbles>>
    /\ slice_iter' = <<>>
    /\ ret' = <<>>
    /\ UNCHANGED <<_bubbles_df, _bubbles_by_iter>>

\* BaseSimu.run, line 181: the loop head
run_for ==
    /\ pc = "run_for"
    /\ IF n < steps
       THEN /\ pc' = step_advance("enter")
            /\ phases' = <<>>
            /\ born' = {}
            /\ drawn' = <<>>
            /\ placed' = {}
       ELSE /\ pc' = "idle"
            /\ UNCHANGED <<phases, born, drawn, placed>>
    /\ UNCHANGED <<heap, next_id, bubbles, err, mergeVars, cls, params, history, runVars, n_steps>>
    /\ UNCHANGED analysisVars
    /\ UNCHANGED aliasVars

\* _create_bubbles of the engine's class
_create_bubbles ==
    /\ pc = "create"
    /\ IF cls \in Variants
       THEN \E r \in Draws :
            LET n_new == Abs(r)
                ids == next_id..(next_id + n_new - 1)
            IN  /\ n_new = 0 \/ Len(bubbles) + n_new <= MaxBubbles
                /\ \E tau \in (IF cls = "SimuD" THEN [ids -> Lifetimes] ELSE {<<>>}) :
                      heap' = [o \in DOMAIN heap \cup ids |->
                                 IF o \in ids
                                 THEN IF cls = "SimuD"
                                      THEN SetAttr(self_bubble_init(cls), "lifetime", tau[o])
                                      ELSE self_bubble_init(cls)
                                 ELSE heap[o]]
                /\ next_id' = next_id + n_new
                /\ bubbles' = bubbles \o [q \in 1..n_new |-> next_id + q - 1]
                /\ born' = ids
                /\ drawn' = <<r>>
       ELSE UNCHANGED <<heap, next_id, bubbles, born, drawn>>
    /\ phases' = Append(phases, "create")
    /\ pc' = step_advance("create")
    /\ UNCHANGED <<err, mergeVars, cls, params, history, runVars, placed, n_steps>>
    /\ UNCHANGED analysisVars
    /\ same' = (same /\ ~NewList("create"))
    /\ _bubbles' = IF same' THEN bubbles' ELSE _bubbles

\* what _pop_bubbles can do: raise exc, or pop the positions S
PopOutcomes(c, h, bs, prm) ==
    LET all == 0..(Len(bs) - 1)
        age(p) == h[bs[p + 1]]["age"]
    IN  IF c = "SimuA"
        THEN IF Len(bs) = 0
             THEN \* np.random.randint(0, size=0): an empty draw, or ValueError
                  {[exc |-> "", S |-> {}], [exc |-> "ValueError", S |-> {}]}
             ELSE {[exc |-> "", S |-> S] :
                     S \in {T \in SUBSET all :
                              \E r \in Draws :
                                 LET n_pop == Min2(Len(bs), Abs(r))
                                 IN  IF n_pop = 0 THEN T = {}
                                     ELSE T # {} /\ Cardinality(T) <= n_pop}}
        ELSE IF c = "SimuB"
        THEN IF Lacking(h, bs, "age") # {}
             THEN {[exc |-> "AttributeError", S |-> {}]}
             ELSE {[exc |-> "", S |-> S] : S \in SUBSET {p \in all : age(p) > 0}}
        ELSE IF c = "SimuC"
        THEN IF Lacking(h, bs, "age") # {}
             THEN {[exc |-> "AttributeError", S |-> {}]}
             ELSE {[exc |-> "", S |-> {p \in all : age(p) > prm.lifetime}]}
        ELSE IF c = "SimuD"
        THEN IF Lacking(h, bs, "age") # {} \/ Lacking(h, bs, "lifetime") # {}
             THEN {[exc |-> "AttributeError", S |-> {}]}
             ELSE {[exc |-> "", S |-> {p \in all : age(p) - h[bs[p + 1]]["lifetime"] >= 0}]}
        ELSE {[exc |-> "", S |-> {}]}

\* _pop_bubbles of the engine's class
_pop_bubbles ==
    /\ pc = "pop"
    /\ \E out \in PopOutcomes(cls, heap, bubbles, params) :
        IF out.exc # ""
        THEN /\ pc' = "raised"
             /\ err' = out.exc
             /\ UNCHANGED bubbles
        ELSE /\ pc' = step_advance("pop")
             /\ bubbles' = PopAll(bubbles, out.S)
             /\ UNCHANGED err
    /\ phases' = Append(phases, "pop")
    /\ UNCHANGED <<heap, next_id, mergeVars, cls, params, history, runVars, born, drawn, placed, n_steps>>
    /\ UNCHANGED analysisVars
    /\ same' = (same /\ ~NewList("pop"))
    /\ _bubbles' = IF same' THEN bubbles' ELSE _bubbles

\* _move_bubbles of the engine's class
_move_bubbles ==
    /\ pc = "move"
    /\ IF cls \in Variants
       THEN /\ \E xy \in [Range(bubbles) -> Locs] :
                 heap' = [o \in DOMAIN heap |->
                            IF o \in Range(bubbles) THEN SetAttr(heap[o], "xy", xy[o]) ELSE heap[o]]
       ELSE UNCHANGED heap
    /\ placed' = Range(bubbles)
    /\ phases' = Append(phases, "move")
    /\ pc' = step_advance("move")
    /\ UNCHANGED <<next_id, bubbles, err, mergeVars, cls, params, history, runVars, born, drawn, n_steps>>
    /\ UNCHANGED analysisVars
    /\ same' = (same /\ ~NewList("move"))
    /\ UNCHANGED _bubbles

\* _merge_bubbles of the engine's class, up to the call of
\* merge_bubbles_closest
_merge_bubbles ==
    /\ pc = "merge"
    /\ phases' = Append(phases, "merge")
    /\ IF cls \in Variants /\ Len(bubbles) >= 2
       THEN /\ max_dist' = params.meniscus
            /\ proba' = IF cls = "SimuA" THEN 100 ELSE params.merging_probability
            /\ bubble_kw' = IF cls = "SimuD" THEN [age |-> 0] ELSE EmptyDict
            /\ pc' = "merge_call"
       ELSE /\ pc' = step_advance("merge")
            /\ UNCHANGED <<max_dist, proba, bubble_kw>>
    /\ UNCHANGED <<heap, next_id, bubbles, err, bubbles_old, D, k_sort, merged, condition, b1, b2, b>>
    /\ UNCHANGED <<cls, params, history, runVars, born, drawn, placed, n_steps>>
    /\ UNCHANGED analysisVars
    /\ UNCHANGED aliasVars

\* (mutant) the list is read from its head
Reversed_forward(bs, q) == bs[q]

\* bubbles[::-1]: the q-th bubble from the end of the list
Reversed(bs, q) == bs[Len(bs) - q + 1]

\* _merge_bubbles of the engine's class, from the return of
\* merge_bubbles_closest: SimuD draws a lifetime for each new bubble
_merge_bubbles_return ==
    /\ pc = "returned"
    /\ cls \in Variants
    /\ IF cls = "SimuD"
       THEN LET n_new == Len(bubbles_old) - Len(bubbles)
                last(q) == Reversed(bubbles, q)
                set == {q \in 1..n_new : "lifetime" \in DOMAIN heap[last(q)]}
                stop == IF set = {} THEN n_new + 1 ELSE CHOOSE q \in set : \A q2 \in set : q <= q2
            IN  /\ \E tau \in [1..n_new -> Lifetimes] :
                     heap' = [o \in DOMAIN heap |->
                                IF \E q \in 1..(stop - 1) : last(q) = o
                                THEN SetAttr(heap[o], "lifetime",
                                             tau[CHOOSE q \in 1..(stop - 1) : last(q) = o])
                                ELSE heap[o]]
                /\ IF set = {}
                   THEN pc' = step_advance("merge") /\ UNCHANGED err
                   ELSE pc' = "raised" /\ err' = "NotImplementedError"
       ELSE /\ pc' = step_advance("merge")
            /\ UNCHANGED <<heap, err>>
    /\ bubbles_old' = <<>> /\ D' = <<>> /\ k_sort' = {} /\ merged' = <<>>
    /\ condition' = FALSE
    /\ b1' = 0 /\ b2' = 0 /\ b' = 0
    /\ max_dist' = 0 /\ proba' = 0 /\ bubble_kw' = EmptyDict
    /\ UNCHANGED <<next_id, bubbles, engineVars>>
    /\ UNCHANGED analysisVars
    /\ same' = (same /\ ~NewList("merge"))
    /\ UNCHANGED _bubbles

\* BaseSimu.step_advance, lines 169-171: the heap after the loop, or the
\* exception it raises
AgeAdvance(c, h, bs) ==
    IF "lifetime" \in DOMAIN self_bubble_init(c)
    THEN IF Lacking(h, bs, "lifetime") # {}
         THEN [exc |-> "AttributeError", heap |-> h]
         ELSE [exc |-> "",
               heap |-> [o \in DOMAIN h |->
                           IF o \in Range(bs)
                           THEN SetAttr(h[o], "lifetime", h[o]["lifetime"] + 1)
                           ELSE h[o]]]
    ELSE [exc |-> "", heap |-> h]

\* BaseSimu.step_advance, lines 169-172
step_advance_age ==
    /\ pc = "age"
    /\ LET out == AgeAdvance(cls, heap, bubbles)
       IN  /\ heap' = out.heap
           /\ IF out.exc # ""
              THEN pc' = "raised" /\ err' = out.exc /\ UNCHANGED n_steps
              ELSE pc' = "append" /\ n_steps' = n_steps + 1 /\ UNCHANGED err
    /\ UNCHANGED <<next_id, bubbles, mergeVars, cls, params, history, runVars, phases, born, drawn, placed>>
    /\ UNCHANGED analysisVars
    /\ UNCHANGED aliasVars

\* (mutant) the snapshot is appended twice
ListAppend_twice(l, x) == Append(Append(l, x), x)

\* (mutant) the last snapshot is overwritten
ListAppend_overwrite(l, x) == IF l = <<>> THEN <<x>> ELSE [l EXCEPT ![Len(l)] = x]

\* list.append(x)
ListAppend(l, x) == Append(l, x)

\* BaseSimu.run, line 183
run_append ==
    /\ pc = "append"
    /\ IF \E a \in FormatReads(cls) : Lacking(heap, bubbles, a) # {}
       THEN /\ pc' = "raised"
            /\ err' = "AttributeError"
            /\ UNCHANGED <<heap, next_id, bubbles, history, n, born, drawn, placed, _bubbles>>
       ELSE /\ history' = ListAppend(history, _format_bubbles(cls, heap, bubbles))
            /\ n' = n + 1
            /\ pc' = "run_for"
            /\ LET \* the two lists name the same objects: rename them alike
                   alike == _bubbles = bubbles
                   rn == IF alike THEN Renamed(cls, heap, bubbles)
                         ELSE [heap |-> heap, bubbles |-> bubbles]
               IN  /\ heap' = rn.heap
                   /\ bubbles' = rn.bubbles
                   /\ _bubbles' = IF alike THEN rn.bubbles ELSE _bubbles
                   /\ next_id' = IF cls = "BaseSimu" \/ ~alike THEN next_id ELSE Len(bubbles) + 1
            /\ born' = {}
            /\ drawn' = <<>>
            /\ placed' = {}
            /\ UNCHANGED err
    /\ UNCHANGED <<mergeVars, cls, params, steps_arg, steps, len0, phases, n_steps>>
    /\ UNCHANGED analysisVars
    /\ UNCHANGED same

Next ==
    \/ run
    \/ run_for
    \/ _create_bubbles
    \/ _pop_bubbles
    \/ _move_bubbles
    \/ _merge_bubbles
    \/ merge_bubbles_closest_init
    \/ merge_bubbles_closest_loop
    \/ merge_bubbles_closest_return
    \/ _merge_bubbles_return
    \/ step_advance_age
    \/ run_append

Spec == Init /\ [][Next]_vars

\* ------------------------------------------------- the engine of SimuD
\* largest value of params['n_bubbles'] an engine of SimuD starts with
MaxStart == 3

\* an engine of SimuD, constructed with 0..MaxStart bubbles, each with the
\* lifetime __init__ draws for it
InitSimuD ==
    \E n0 \in 0..MaxStart, mp \in MergingProbabilities, st \in StepsDefaults :
        Construct("SimuD", n0, mp, st)

SpecSimuD == InitSimuD /\ [][Next]_vars

\* --------------------------------------------------- the aggregation layer
\* An optional value is <<>> for None and <<v>> for v.
\* slice(start, stop, step)
Slice(start, stop, step) == [type |-> "slice", start |-> start, stop |-> stop, step |-> step]

\* the arguments a caller can pass as slice_iter: None, an int, a 3-tuple,
\* a slice, and something else (a string)
SliceIters ==
    {[type |-> "None"], [type |-> "str"]}
    \cup {[type |-> "int", k |-> k] : k \in 1..2}
    \cup {[type |-> "tuple", v |-> v] : v \in {<<0, 1, 1>>, <<1, 2, 1>>, <<0, 2, 1>>, <<0, 1>>}}
    \cup {Slice(<<a>>, <<z>>, <<>>) : a \in 0..1, z \in 0..2}

\* _format_slice(slice_iter): the slice, or the exception raised.  The
\* tuple branch evaluates len(slice_inter), a name that is not defined.
_format_slice(si) ==
    IF si.type = "None" THEN [exc |-> "", idx |-> Slice(<<>>, <<>>, <<>>)]
    ELSE IF si.type = "int" THEN [exc |-> "", idx |-> Slice(<<>>, <<>>, <<si.k>>)]
    ELSE IF si.type = "tuple" THEN [exc |-> "NameError"]
    ELSE IF si.type = "slice" THEN [exc |-> "", idx |-> si]
    ELSE [exc |-> "TypeError"]

\* the elements of a finite set of integers, in increasing order
RECURSIVE Sorted(_)
Sorted(S) ==
    IF S = {} THEN <<>>
    ELSE LET m == CHOOSE x \in S : \A y \in S : x <= y
         IN  <<m>> \o Sorted(S \ {m})

\* pd.Series(b, name='count') under key it: one row per volume of the
\* snapshot b, none when b is empty
SeriesRows(it, snap) ==
    LET vs == Sorted(DOMAIN snap)
    IN  [q \in DOMAIN vs |-> [iter |-> it, volume |-> vs[q], count |-> snap[vs[q]]]]

\* pd.concat({first + i: pd.Series(b) for i, b in enumerate(h[first:])}):
\* the rows of the snapshots of h from position first on
RECURSIVE Concat(_, _)
Concat(h, first) ==
    IF first >= Len(h) THEN <<>>
    ELSE SeriesRows(first, h[first + 1]) \o Concat(h, first + 1)

\* SimuVolumesInt._get_bubbles_df: the table, from scratch or from the
\* stored one extended by the snapshots it is taken to lack
_get_bubbles_df(stored, h) ==
    IF stored # <<>>
    THEN LET cnt == Cardinality({stored[1][q].iter : q \in DOMAIN stored[1]})
         IN  IF cnt < Len(h) THEN stored[1] \o Concat(h, cnt) ELSE stored[1]
    ELSE Concat(h, 0)

\* the sum of a sequence of numbers
RECURSIVE SumSeq(_)
SumSeq(q) == IF q = <<>> THEN 0 ELSE q[1] + SumSeq(Tail(q))

\* the rows of a table that satisfy a condition, in order
RECURSIVE Filter(_, _)
Filter(rows, keep) ==
    IF rows = <<>> THEN <<>>
    ELSE (IF keep[1] THEN <<rows[1]>> ELSE <<>>) \o Filter(Tail(rows), Tail(keep))

\* df.loc[idx, slice(None)] on the (iter, volume) index: the rows whose
\* iter label is picked by idx.  .loc slices by label, both ends
\* included, the step counted from the first label.
InSlice(l, idx) ==
    LET lo == IF idx.start = <<>> THEN 0 ELSE idx.start[1]
        st == IF idx.step = <<>> THEN 1 ELSE idx.step[1]
    IN  /\ lo <= l
        /\ idx.stop = <<>> \/ l <= idx.stop[1]
        /\ (l - lo) % st = 0

Loc(rows, idx) == Filter(rows, [q \in DOMAIN rows |-> InSlice(rows[q].iter, idx)])

\* a slice other than slice(None) needs the iter labels in order
\* (UnsortedIndexError otherwise)
Lexsorted(rows) == \A q \in 1..(Len(rows) - 1) : rows[q].iter <= rows[q + 1].iter

\* bubbles.groupby('volume').apply(sum): volume -> total count
Histo(rows) ==
    [v \in {rows[q].volume : q \in DOMAIN rows} |->
        SumSeq([q \in DOMAIN rows |-> IF rows[q].volume = v THEN rows[q].count ELSE 0])]

\* b.groupby('iter')[cols].sum(): one row per iter label of the table, with
\* the count and the sum of count * volume**(3/3); the moments of order 1
\* and 2, irrational, are left out
ByIter(rows) ==
    LET its == Sorted({rows[q].iter : q \in DOMAIN rows})
    IN  [k \in DOMAIN its |->
            [iter |-> its[k],
             count |-> SumSeq([q \in DOMAIN rows |->
                          IF rows[q].iter = its[k] THEN rows[q].count ELSE 0]),
             sum_n_d3 |-> SumSeq([q \in DOMAIN rows |->
                          IF rows[q].iter = its[k] THEN rows[q].count * rows[q].volume ELSE 0])]]

\* largest table kept: the calls that would store a longer one are left out
MaxRows == 4

\* SimuVolumesInt.get_histogram(slice_iter), lines 597-599 and 606: the
\* exception raised or the counts returned, and the table stored on the way
GetHistogram(stored, h, si) ==
    LET fs == _format_slice(si)
        df == _get_bubbles_df(stored, h)
    IN  IF fs.exc # ""
        THEN [exc |-> fs.exc, stored |-> stored]
        ELSE IF fs.idx # Slice(<<>>, <<>>, <<>>) /\ ~Lexsorted(df)
        THEN [exc |-> "UnsortedIndexError", stored |-> <<df>>]
        ELSE [exc |-> "", stored |-> <<df>>, counts |-> Histo(Loc(df, fs.idx))]

\* SimuVolumesInt.get_histogram(slice_iter)
get_histogram ==
    /\ pc = "idle"
    /\ cls \in Variants
    /\ \E si \in SliceIters :
        LET out == GetHistogram(_bubbles_df, history, si)
        IN  /\ out.stored # <<>> => Len(out.stored[1]) <= MaxRows
            /\ slice_iter' = <<si>>
            /\ _bubbles_df' = out.stored
            /\ IF out.exc # ""
               THEN pc' = "raised" /\ err' = out.exc /\ ret' = <<>>
               ELSE ret' = <<out.counts>> /\ UNCHANGED <<pc, err>>
    /\ UNCHANGED <<heap, next_id, bubbles, mergeVars, engineVars, _bubbles_by_iter>>
    /\ UNCHANGED aliasVars

\* SimuVolumesInt.bubbles_by_iter
bubbles_by_iter ==
    /\ pc = "idle"
    /\ cls \in Variants
    /\ slice_iter' = <<>>
    /\ IF _bubbles_by_iter # <<>> /\ Len(_bubbles_by_iter[1]) = Len(history)
       THEN /\ ret' = _bubbles_by_iter
            /\ UNCHANGED <<_bubbles_df, _bubbles_by_iter>>
       ELSE LET df == _get_bubbles_df(_bubbles_df, history)
            IN  /\ Len(df) <= MaxRows
                /\ _bubbles_df' = <<df>>
                /\ _bubbles_by_iter' = <<ByIter(df)>>
                /\ ret' = <<ByIter(df)>>
    /\ UNCHANGED <<heap, next_id, bubbles, pc, err, mergeVars, engineVars>>
    /\ UNCHANGED aliasVars

\* an engine that creates, bursts, moves and merges bubbles, run and read
InitAnalysis == Init /\ cls = "SimuA" /\ params.merging_probability = 100

NextAnalysis ==
    \/ Next
    \/ get_histogram
    \/ bubbles_by_iter

SpecAnalysis == InitAnalysis /\ [][NextAnalysis]_vars

\* ------------------------------------------------ the snapshot formatters
\* the classes that define a formatter of counts
Formatters == {"SimuVolumesInt", "SimuDiametersHist"}

\* the bubbles a formatter can be handed: 1, 2, 8 and 27 unit volumes merged,
\* of diameter 1.0, 1.26, 2.0 and 3.0
FormatInputs ==
    {[diameter |-> Scale, volume |-> 1],
     [diameter |-> Cbrt(2 * Scale * Scale * Scale), volume |-> 2],
     [diameter |-> 2 * Scale, volume |-> 8],
     [diameter |-> 3 * Scale, volume |-> 27]}

\* sum(dic.values())
RECURSIVE _count_bubbles(_)
_count_bubbles(dic) ==
    IF DOMAIN dic = {} THEN 0
    ELSE LET k == CHOOSE x \in DOMAIN dic : TRUE
         IN  dic[k] + _count_bubbles([x \in DOMAIN dic \ {k} |-> dic[x]])

\* self._format_bubbles(bubbles), called on a list of bubbles
format_bubbles_call ==
    /\ pc = "format_call"
    /\ ret' = <<_format_bubbles(cls, heap, bubbles)>>
    /\ pc' = "formatted"
    /\ UNCHANGED <<heap, next_id, bubbles, err, mergeVars, engineVars>>
    /\ UNCHANGED <<_bubbles_df, _bubbles_by_iter, slice_iter>>
    /\ UNCHANGED aliasVars

\* a formatter of either class and a list of bubbles
InitFormat ==
    \E sz \in 0..MaxN :
        /\ cls \in Formatters
        /\ heap \in [1..sz -> FormatInputs]
        /\ next_id = sz + 1
        /\ bubbles = [p \in 1..sz |-> p]
        /\ pc = "format_call"
        /\ err = ""
        /\ max_dist = 0 /\ proba = 0 /\ bubble_kw = EmptyDict
        /\ bubbles_old = <<>> /\ D = <<>> /\ k_sort = {} /\ merged = <<>>
        /\ condition = FALSE
        /\ b1 = 0 /\ b2 = 0 /\ b = 0
        /\ params = EmptyDict
        /\ history = <<>>
        /\ steps_arg = <<>> /\ steps = 0 /\ n = 0 /\ len0 = 0
        /\ phases = <<>> /\ born = {} /\ drawn = <<>> /\ placed = {} /\ n_steps = 0
        /\ _bubbles_df = <<>> /\ _bubbles_by_iter = <<>> /\ slice_iter = <<>> /\ ret = <<>>
        /\ _bubbles = <<>> /\ same = FALSE

NextFormat == format_bubbles_call

SpecFormat == InitFormat /\ [][NextFormat]_vars

\* =========================================================================
\* Properties of merge_bubbles_closest, checked under SpecMerge
\* =========================================================================
\* the call is running or has returned (it has not raised)
InCall == pc \in {"merge_loop", "returned"}

\* the Bubble objects the call has created so far
Created == next_id - 1 - Len(bubbles_old)

\* the pairs of positions of the input list
Pairs0 == {pq \in (0..(Len(bubbles_old) - 1)) \X (0..(Len(bubbles_old) - 1)) : pq[1] < pq[2]}

\* twice the surface-to-surface gap of two objects: centre distance minus
\* half the sum of the diameters
Gap2(o1, o2) == 2 * Dist(o1["xy"], o2["xy"]) - (o1["diameter"] + o2["diameter"])

\* twice the gap of the input bubbles at positions p and q
GapOf(p, q) == Gap2(heap[bubbles_old[p + 1]], heap[bubbles_old[q + 1]])

\* a list by content: the attributes of its bubbles, in order
Content(bs) == [p \in DOMAIN bs |-> heap[bs[p]]]

\* C1: every successful pair-merge removes two bubbles and appends one: the
\* list is as long as the input minus the number of successful merges (the
\* Bubble objects created, two consumed indices each).
C1_LengthAfterMerges ==
    InCall =>
        /\ Len(bubbles) = Len(bubbles_old) - Created
        /\ Len(merged) = 2 * Created

C1_Witness ==
    /\ pc = "returned"
    /\ Created = 2
    /\ Len(bubbles) = Len(bubbles_old) - 2

\* C2: within one call every bubble takes part in at most one merge: no
\* index is consumed twice, an input bubble is gone from the list exactly
\* when its index is consumed, and every bubble the call created is still
\* in the list (it is never popped for another merge).
C2_AtMostOneMerge ==
    InCall =>
        /\ \A p, q \in DOMAIN merged : p # q => merged[p] # merged[q]
        /\ \A p \in DOMAIN bubbles_old :
              (bubbles_old[p] \in Range(bubbles)) <=> ((p - 1) \notin Range(merged))
        /\ \A o \in (Len(bubbles_old) + 1)..(next_id - 1) : o \in Range(bubbles)

\* a merged bubble is left within reach of an unmerged input bubble, and the
\* call has returned without merging them
C2_Witness ==
    /\ pc = "returned"
    /\ proba = 100
    /\ Created = 1
    /\ \E p \in DOMAIN bubbles :
          /\ bubbles[p] \in Range(bubbles_old)
          /\ Gap2(heap[bubbles[p]], heap[b]) < 2 * max_dist

\* C3: when both bubbles carry volume the merged bubble's volume is the sum
\* of theirs; when both carry diameter its diameter is the cube root of the
\* sum of their cubes (to the resolution of the representation).
C3_VolumeAddsUp ==
    (InCall /\ b # 0) =>
        /\ ("volume" \in DOMAIN heap[b1] /\ "volume" \in DOMAIN heap[b2]) =>
              heap[b]["volume"] = heap[b1]["volume"] + heap[b2]["volume"]
        /\ ("diameter" \in DOMAIN heap[b1] /\ "diameter" \in DOMAIN heap[b2]) =>
              LET d == heap[b]["diameter"]
                  cubes == heap[b1]["diameter"] * heap[b1]["diameter"] * heap[b1]["diameter"]
                           + heap[b2]["diameter"] * heap[b2]["diameter"] * heap[b2]["diameter"]
              IN  /\ (2*d - 1) * (2*d - 1) * (2*d - 1) <= 8 * cubes
                  /\ 8 * cubes < (2*d + 1) * (2*d + 1) * (2*d + 1)

C3_Witness ==
    /\ InCall
    /\ b # 0
    /\ "volume" \in DOMAIN heap[b1]
    /\ "volume" \in DOMAIN heap[b2]
    /\ heap[b1]["volume"] # heap[b2]["volume"]
    /\ heap[b]["volume"] = 9

\* C4: with merge probability 1, when the call returns no pair of input
\* bubbles with gap below max_dist has both its bubbles unmerged.
C4_Maximal ==
    (pc = "returned" /\ proba = 100) =>
        \A pq \in Pairs0 :
            GapOf(pq[1], pq[2]) < 2 * max_dist =>
                (pq[1] \in Range(merged) \/ pq[2] \in Range(merged))

\* an eligible pair was skipped because one of its bubbles was consumed
C4_Witness ==
    /\ pc = "returned"
    /\ proba = 100
    /\ \E pq \in Pairs0 :
          /\ GapOf(pq[1], pq[2]) < 2 * max_dist
          /\ pq[1] \in Range(merged)
          /\ pq[2] \notin Range(merged)

\* C5 as stated: with max_dist = -1 the returned population equals the
\* input by content, whatever the population.
C5_NoMergeAtMinusOne ==
    (pc = "returned" /\ max_dist = -Scale) => Content(bubbles) = Content(bubbles_old)

\* C5 amended: with max_dist = -1 the returned population equals the input
\* by content provided no two bubbles overlap by more than 1 (every gap is
\* at least -1).
C5_NoMergeAtMinusOneShallow ==
    (pc = "returned" /\ max_dist = -Scale /\ \A pq \in Pairs0 : GapOf(pq[1], pq[2]) >= -2 * Scale) =>
        Content(bubbles) = Content(bubbles_old)

\* overlapping bubbles, gap exactly -1, are handed over and come back
C5_Witness ==
    /\ pc = "returned"
    /\ max_dist = -Scale
    /\ proba = 100
    /\ Pairs0 # {}
    /\ \A pq \in Pairs0 : GapOf(pq[1], pq[2]) >= -2 * Scale
    /\ \E pq \in Pairs0 : GapOf(pq[1], pq[2]) = -2 * Scale
    /\ bubbles = bubbles_old

\* C6: a pair is merged only if its surface-to-surface gap is strictly
\* below max_dist; when every gap is at least max_dist the list comes back
\* unchanged.
C6_OnlyBelowThreshold ==
    InCall =>
        /\ \A q \in 1..(Len(merged) \div 2) :
              GapOf(merged[2*q - 1], merged[2*q]) < 2 * max_dist
        /\ (pc = "returned" /\ \A pq \in Pairs0 : GapOf(pq[1], pq[2]) >= 2 * max_dist) =>
              (bubbles = bubbles_old /\ merged = <<>>)

\* a pair at a gap equal to max_dist is left alone, both bubbles unmerged,
\* while another pair is merged
C6_Witness ==
    /\ pc = "returned"
    /\ proba = 100
    /\ merged # <<>>
    /\ \E pq \in Pairs0 :
          /\ GapOf(pq[1], pq[2]) = 2 * max_dist
          /\ pq[1] \notin Range(merged)
          /\ pq[2] \notin Range(merged)

\* C16 as stated: the bubble merge_bubbles_pair makes of b1 and b2 carries
\* volume, diameter, location exactly when both b1 and b2 carry it, and the
\* call raises no error when one of them alone carries an attribute.
C16_OnlyCommonAttributes ==
    b1 # 0 =>
        /\ err \notin {"AttributeError", "UnboundLocalError"}
        /\ \A a \in {"volume", "diameter", "xy"} :
              (a \in DOMAIN heap[b]) <=> (a \in DOMAIN heap[b1] /\ a \in DOMAIN heap[b2])

\* C19: whatever was merged before in the call, a successful merge of the
\* pair (i, j) pops the bubbles that stood at i and j of the input list: b1
\* is the one of j, b2 the one of i; the list loses these two and nothing
\* else, in particular no bubble appended by an earlier merge; and no pop
\* runs out of range.
C19_PopsTheInputPositions ==
    [][/\ err' # "IndexError"
       /\ (pc = "merge_loop" /\ merged' # merged) =>
             LET i == merged'[Len(merged') - 1]
                 j == merged'[Len(merged')]
             IN  /\ b1' = bubbles_old[j + 1]
                 /\ b2' = bubbles_old[i + 1]
                 /\ Range(bubbles) \ Range(bubbles') = {b1', b2'}
                 /\ Range(bubbles') \ Range(bubbles) = {b'}
                 /\ Len(bubbles') = Len(bubbles) - 1]_vars

\* a second merge of a call whose pair stands behind consumed positions
C19_Witness ==
    /\ InCall
    /\ Len(merged) = 4
    /\ Shift(SubSeq(merged, 1, 2), merged[4]) > 0
    /\ b1 = bubbles_old[merged[4] + 1]
    /\ b2 = bubbles_old[merged[3] + 1]

\* C20: each pass of the loop takes one pair off the stack for good, and
\* the pair taken has the least gap of those left, so pairs are examined in
\* nondecreasing order of gap and each at most once; a successful merge has
\* a gap no smaller than the merge before it; and when every draw succeeds
\* (probability 1), neither bubble of a merged pair has a partner that is
\* not yet consumed and stands at a strictly smaller gap.
C20_ClosestFirst ==
    [][(pc = "merge_loop" /\ k_sort' # k_sort) =>
          \E k \in k_sort :
              LET i == TriuIndices(Len(bubbles_old), k)[1]
                  j == TriuIndices(Len(bubbles_old), k)[2]
                  last == Len(merged)
              IN  /\ k_sort' = k_sort \ {k}
                  /\ \A k2 \in k_sort' : D[k] <= D[k2]
                  /\ D[k] = GapOf(i, j)
                  /\ merged' # merged =>
                        /\ merged' = merged \o <<i, j>>
                        /\ last >= 2 => GapOf(merged[last - 1], merged[last]) <= GapOf(i, j)
                        /\ proba = 100 =>
                              \A p \in (0..(Len(bubbles_old) - 1)) \ (Range(merged) \cup {i, j}) :
                                  /\ GapOf(i, p) >= GapOf(i, j)
                                  /\ GapOf(j, p) >= GapOf(i, j)]_vars

\* two merges of one call at different gaps, every draw a success
C20_Witness ==
    /\ InCall
    /\ proba = 100
    /\ Len(merged) = 4
    /\ GapOf(merged[1], merged[2]) < GapOf(merged[3], merged[4])

\* C21: when the pair taken off the stack is eligible (neither index is
\* consumed) and the pass neither merges nor raises, the trial has failed:
\* the probability is below 1, the list, the bubbles and the consumed
\* indices are as before, and the pair is off the stack, which never gets a
\* pair back during the call.
C21_FailedTrialLeavesAll ==
    [][pc = "merge_loop" =>
          /\ k_sort' \subseteq k_sort
          /\ \A k \in k_sort \ k_sort' :
                LET i == TriuIndices(Len(bubbles_old), k)[1]
                    j == TriuIndices(Len(bubbles_old), k)[2]
                IN  (i \notin Range(merged) /\ j \notin Range(merged)
                        /\ merged' = merged /\ pc' = "merge_loop") =>
                      /\ proba # 100
                      /\ bubbles' = bubbles
                      /\ heap' = heap
                      /\ next_id' = next_id
                      /\ i \notin Range(merged') /\ j \notin Range(merged')
                      /\ k_sort' = k_sort \ {k}]_vars

\* the first merge of a call took a bubble whose closer partner is still
\* unconsumed: that closer pair was examined before, and its trial failed
C21_Witness ==
    /\ InCall
    /\ proba = 50
    /\ Len(merged) >= 2
    /\ \E j \in (0..(Len(bubbles_old) - 1)) \ Range(merged) :
          /\ GapOf(merged[1], j) < GapOf(merged[1], merged[2])
          /\ GapOf(merged[1], j) < 2 * max_dist

\* every bubble of the list bs carries a volume
AllVolumes(h, bs) == \A o \in Range(bs) : "volume" \in DOMAIN h[o]

\* the volumes of the bubbles of the list bs, added up
TotalVolume(h, bs) == SumSeq([p \in DOMAIN bs |-> h[bs[p]]["volume"]])

\* C24: in a population where every bubble carries a volume, no step of
\* merge_bubbles_closest (nor of the move and merge phases that call it)
\* changes the sum of the volumes, whatever the threshold and the draws;
\* only the create and burst phases can change it.
C24_TotalVolumeConserved ==
    [][(AllVolumes(heap, bubbles) /\ pc \notin {"create", "pop"}) =>
          /\ pc' # "raised"
          /\ AllVolumes(heap', bubbles')
          /\ TotalVolume(heap', bubbles') = TotalVolume(heap, bubbles)]_vars

\* two merges in a call on four bubbles with volumes: 18 in all, in two
C24_Witness ==
    /\ pc = "returned"
    /\ Len(merged) = 4
    /\ AllVolumes(heap, bubbles_old)
    /\ Len(bubbles) = 2
    /\ TotalVolume(heap, bubbles) = 18
    /\ TotalVolume(heap, bubbles_old) = 18

\* =========================================================================
\* Properties of the step engine, checked under Spec
\* =========================================================================
\* C7: in a step the phases run once each in the order create, burst, move,
\* merge, on the one population list: the burst receives the bubbles the
\* step created, and every bubble handed to merge went through the step's
\* move, which, in the classes that place bubbles, gave it a location.
C7_PhaseOrder ==
    /\ pc = "create" => phases = <<>>
    /\ pc = "pop" => (phases = <<"create">> /\ born \subseteq Range(bubbles))
    /\ pc = "move" => phases = <<"create", "pop">>
    /\ pc = "merge" =>
          /\ phases = <<"create", "pop", "move">>
          /\ Range(bubbles) \subseteq placed
          /\ cls \in Variants => \A o \in Range(bubbles) : "xy" \in DOMAIN heap[o]
    /\ (cls \in Classes /\ pc \in {"merge_call", "merge_loop", "returned", "age", "append"}) =>
          phases = <<"create", "pop", "move", "merge">>

\* a bubble created in the step was burst in the same step, and what is
\* left reaches merge with a location
C7_Witness ==
    /\ pc = "merge"
    /\ born # {}
    /\ ~(born \subseteq Range(bubbles))
    /\ bubbles # <<>>
    /\ Range(bubbles) \subseteq placed
    /\ \A o \in Range(bubbles) : "xy" \in DOMAIN heap[o]

\* C8 as stated: the end of a step, between merge and the snapshot, adds 1 to
\* the age of every bubble of the population that carries an age.
C8_AgeAdvances ==
    [][(pc = "age" /\ pc' = "append") =>
          \A o \in Range(bubbles) :
              "age" \in DOMAIN heap[o] => heap'[o]["age"] = heap[o]["age"] + 1]_vars

\* C9: a run that returns has done as many steps as its argument says, or
\* params['steps'] without argument, and has appended one snapshot per
\* step; while it runs the history is its length at the call plus the
\* steps done so far.
C9_RunAppendsPerStep ==
    [][/\ (pc' \in {"run_for", "create"} /\ cls \in Classes) =>
              (Len(history') = len0' + n' /\ n' <= steps')
       /\ (pc = "run_for" /\ pc' = "idle") =>
              /\ n = (IF steps_arg = <<>> THEN params.steps ELSE steps_arg[1])
              /\ Len(history) = len0 + n
              /\ UNCHANGED <<heap, bubbles, history>>]_vars

\* a run of an explicit number of steps, other than the default, has returned
C9_Witness ==
    /\ pc = "idle"
    /\ steps_arg = <<2>>
    /\ params.steps = 1
    /\ n = 2
    /\ n_steps = 2
    /\ Len(history) = len0 + 2

\* C10 as stated: between runs the history of an engine of any class has
\* one entry more than the steps done, one of them right after construction.
C10_InitialSnapshot ==
    pc = "idle" => Len(history) = n_steps + 1

\* what entry i of the history shows to a reader: the counts, or, for the
\* list of bubbles BaseSimu stores, the attributes of each bubble
Shown(i) ==
    IF cls = "BaseSimu" THEN [p \in DOMAIN history[i] |-> heap[history[i][p]]]
    ELSE history[i]

\* C12: an entry of the history, once appended, shows the same content in
\* every later state, the attributes of the bubbles it lists included,
\* whatever phases, steps and runs do afterwards.
C12_HistoryImmutable ==
    [][\A i \in DOMAIN history : i \in DOMAIN history' /\ Shown(i)' = Shown(i)]_vars

\* the population has been changed by later steps and is being changed
\* again, two snapshots already in the history
C12_Witness ==
    /\ pc = "merge"
    /\ n_steps = 1
    /\ Len(history) = 2
    /\ history[1] # history[2]
    /\ cls \in Variants
    /\ Len(bubbles) # _count_bubbles(history[2])
    /\ \A o \in Range(bubbles) : "xy" \in DOMAIN heap[o]

\* C15 as stated: the create phase appends max(0, r) bubbles for a drawn
\* production count that rounds to r: none when r is negative.
C15_CreateClampsAtZero ==
    (pc = "pop" /\ drawn # <<>>) =>
        Cardinality(born) = (IF drawn[1] < 0 THEN 0 ELSE drawn[1])

\* C17: when a phase raises the step is over: nothing runs after it, no
\* snapshot is appended for the step (the history is as the step found it,
\* one entry per step completed), and what the earlier phases did to the
\* population stays (the burst that raises leaves the list and the bubbles
\* as the create phase left them).
C17_StepAborts ==
    [][/\ pc # "raised"
       /\ (pc' = "raised" /\ cls \in Classes) =>
             /\ history' = history
             /\ Len(history) = len0 + n
             /\ pc \in {"create", "pop", "move", "merge", "merge_loop", "returned", "age"}
             /\ pc = "pop" => (bubbles' = bubbles /\ heap' = heap /\ born \subseteq Range(bubbles'))]_vars

\* the burst of a second step has raised: the bubble the step created is in
\* the population, the history has the entries of construction and step one
C17_Witness ==
    /\ pc = "raised"
    /\ cls \in Classes
    /\ phases = <<"create", "pop">>
    /\ born # {}
    /\ born \subseteq Range(bubbles)
    /\ n_steps = 1
    /\ Len(history) = 2
    /\ Len(bubbles) # _count_bubbles(history[2])

\* C25: the list self._bubbles shows is the list the steps work on: at
\* every moment of a run the two agree, and whenever run is at its loop
\* head or has returned, the last entry of the history is the snapshot of
\* self._bubbles and the history has one entry per step completed since
\* construction.  A later run therefore takes up the state an uninterrupted
\* run would be in after as many steps.
C25_RunsCompose ==
    (cls \in Classes /\ pc # "raised") =>
        /\ _bubbles = bubbles
        /\ pc \in {"idle", "run_for"} =>
              /\ Len(history) = (IF cls = "SimuDiametersHist" THEN 0 ELSE 1) + n_steps
              /\ history # <<>> => history[Len(history)] = _format_bubbles(cls, heap, _bubbles)

\* a second run has done its step after a first run of one step: its
\* snapshot differs from the one the first run left, which differs from
\* that of construction
C25_Witness ==
    /\ pc = "idle"
    /\ cls \in Variants
    /\ steps = 1 /\ n = 1 /\ len0 = 2 /\ n_steps = 2
    /\ Len(history) = 3
    /\ history[1] # history[2]
    /\ history[2] # history[3]
    /\ _bubbles = bubbles
    /\ _bubbles # <<>>

\* C27 as stated: in the variants whose burst rule reads age (SimuB and
\* its subclass SimuB2, SimuC, SimuD), every bubble a call of
\* merge_bubbles_closest has produced carries age = 0 when the call
\* returns to the merge phase, and the merge phase leaves no bubble
\* without an age to the steps that follow.
C27_MergedAgeZero ==
    cls \in {"SimuB", "SimuC", "SimuD"} =>
        /\ pc = "returned" =>
              \A o \in Range(bubbles) \ Range(bubbles_old) :
                  "age" \in DOMAIN heap[o] /\ heap[o]["age"] = 0
        /\ pc = "age" => \A o \in Range(bubbles) : "age" \in DOMAIN heap[o]

\* =========================================================================
\* Properties of the engine of SimuD, checked under SpecSimuD
\* =========================================================================
\* the bubbles the running call of merge_bubbles_closest has appended
MergedNow == Range(bubbles) \ Range(bubbles_old)

\* C23: once merge_bubbles_closest has returned, SimuD._merge_bubbles gives
\* a lifetime to each bubble the call has produced, which had none, and to
\* no other bubble; it never raises; and the population that leaves the
\* merge phase carries an age and a lifetime, bubble by bubble.
C23_LifetimeToMergedOnly ==
    [][(pc = "returned" /\ cls = "SimuD") =>
          /\ pc' = "age"
          /\ err' # "NotImplementedError"
          /\ \A o \in DOMAIN heap :
                IF o \in MergedNow
                THEN /\ "lifetime" \notin DOMAIN heap[o]
                     /\ "lifetime" \in DOMAIN heap'[o]
                     /\ heap'[o]["lifetime"] \in Lifetimes
                     /\ heap'[o] = SetAttr(heap[o], "lifetime", heap'[o]["lifetime"])
                ELSE heap'[o] = heap[o]
          /\ \A o \in Range(bubbles') : {"age", "lifetime"} \subseteq DOMAIN heap'[o]]_vars

\* the merge phase of a first step is over: one bubble made of two, with
\* its lifetime, next to a bubble of the start that kept its own
C23_Witness ==
    /\ pc = "age"
    /\ cls = "SimuD"
    /\ n_steps = 0
    /\ Len(bubbles) = 2
    /\ heap[bubbles[1]]["volume"] = 1
    /\ heap[bubbles[2]]["volume"] = 2
    /\ "lifetime" \in DOMAIN heap[bubbles[2]]
    /\ heap[bubbles[1]]["lifetime"] # heap[bubbles[2]]["lifetime"]

\* C26 as stated, at the horizon of two steps: a bubble leaves when the
\* burst phase sees its age at its lifetime or above.  A bubble that a step
\* finds in the population has lived through one step at least, so with a
\* lifetime of 1 it is due: once the burst phase of a second or later step
\* is over, the bubbles it has left, those the step created apart, all have
\* a lifetime above 1.
C26_DueBubblesBurst ==
    (cls = "SimuD" /\ pc = "move" /\ n_steps >= 1) =>
        \A o \in Range(bubbles) \ born : heap[o]["lifetime"] > 1

\* =========================================================================
\* Properties of the aggregation layer, checked under SpecAnalysis
\* =========================================================================
\* the sum, size by size, of two histograms
Plus(h1, h2) ==
    [v \in DOMAIN h1 \cup DOMAIN h2 |->
        (IF v \in DOMAIN h1 THEN h1[v] ELSE 0) + (IF v \in DOMAIN h2 THEN h2[v] ELSE 0)]

\* the explicit range of the steps first..last-1, in the 3-tuple form
StepRange(first, last) == [type |-> "tuple", v |-> <<first, last, 1>>]

\* C13 as stated: for every cut of the steps 0..len(history)-1 in two
\* contiguous ranges, get_histogram returns for each range, and the two
\* histograms add up, size by size, to the histogram of all steps.
C13_HistogramAdditive ==
    (pc = "idle" /\ cls \in Variants) =>
        \A m \in 1..(Len(history) - 1) :
            LET lo == GetHistogram(_bubbles_df, history, StepRange(0, m))
                hi == GetHistogram(_bubbles_df, history, StepRange(m, Len(history)))
                all == GetHistogram(_bubbles_df, history, [type |-> "None"])
            IN  /\ lo.exc = "" /\ hi.exc = "" /\ all.exc = ""
                /\ Plus(lo.counts, hi.counts) = all.counts

\* C14 as stated: the per-step table bubbles_by_iter returns has one row
\* for every step 0..len(history)-1, steps of an empty population
\* included, and the row of step s counts the population captured at s.
C14_DenseSteps ==
    (pc = "idle" /\ slice_iter = <<>> /\ ret # <<>>) =>
        /\ Len(ret[1]) = Len(history)
        /\ \A s \in DOMAIN history :
              /\ ret[1][s].iter = s - 1
              /\ ret[1][s].count = _count_bubbles(history[s])

\* the four documented forms of slice_iter and the slice each stands for
Documented(si) ==
    \/ si.type \in {"None", "int", "slice"}
    \/ si.type = "tuple" /\ Len(si.v) = 3

Stands(si) ==
    IF si.type = "None" THEN Slice(<<>>, <<>>, <<>>)
    ELSE IF si.type = "int" THEN Slice(<<>>, <<>>, <<si.k>>)
    ELSE IF si.type = "tuple" THEN Slice(<<si.v[1]>>, <<si.v[2]>>, <<si.v[3]>>)
    ELSE si

\* C18 as stated: a call of get_histogram with slice_iter in one of the four
\* documented forms gets the slice the form stands for and no error from
\* the selection; with any other argument it raises TypeError.
C18_SliceForms ==
    slice_iter # <<>> =>
        IF Documented(slice_iter[1])
        THEN /\ _format_slice(slice_iter[1]) = [exc |-> "", idx |-> Stands(slice_iter[1])]
             /\ err \notin {"NameError", "TypeError"}
        ELSE pc = "raised" /\ err = "TypeError"

\* C22 as stated: whenever the tables can be read, the table bubbles_df
\* returns is the one computed from scratch over the current history (each
\* entry s gives its rows once, labelled s), and bubbles_by_iter returns
\* the per-step sums of that table, whatever runs and reads came before.
C22_CacheCoherent ==
    (pc = "idle" /\ cls \in Variants) =>
        /\ _get_bubbles_df(_bubbles_df, history) = Concat(history, 0)
        /\ (IF _bubbles_by_iter # <<>> /\ Len(_bubbles_by_iter[1]) = Len(history)
            THEN _bubbles_by_iter[1]
            ELSE ByIter(_get_bubbles_df(_bubbles_df, history)))
              = ByIter(Concat(history, 0))

====
